---- MODULE Spec2Model ----
(***************************************************************************)
(* Chapter API: cache-aside list endpoint, upload with cache invalidation, *)
(* admin authorisation and the rate limiter with its in-memory fallback.   *)
(*                                                                         *)
(* The repository holds three iterations of middlewares/cache.js; the      *)
(* variable `variant` fixes which one is routed in a given deployment:     *)
(*   "v1"  src/unnamed/part_000         (no try/catch, redis.get)          *)
(*   "v2"  src/middlewares/cache.js     (try/catch, redis.get)             *)
(*   "v3"  src/utils/redisClient.js:84  (client getter, null check)        *)
(* v1 and v2 call get/setEx/del on the module exported by                  *)
(* utils/redisClient; v3 goes with the module as it is in the tree, which  *)
(* exports only the `client` getter.                                       *)
(***************************************************************************)
EXTENDS Integers, Sequences, FiniteSets, TLC

\* ---------------------------------------------------------------- bounds
MaxArrivals == 2      \* requests one client sends per window to the chapter routes
MaxItems == 2         \* records in one uploaded array
MaxStore == 2         \* documents uploads add to the collection

\* ------------------------------------------------------ program constants
CacheTtl == 3600      \* redis.setEx('chapters', 3600, ...)
windowSec == 60       \* windowMs: 60 * 1000
max == 30             \* max: 30

Reqs == {1, 2}                          \* request slots in flight at once
Clients == {"ip1", "ip2"}               \* client identifiers (req.ip)
Variants == {"v1", "v2", "v3"}
Subjects == {"Math", "Physics"}
Seeded == <<"Math", "Physics">>         \* a collection left by an earlier run

VARIABLES
  variant,      \* which middlewares/cache.js iteration is routed
  adminToken,   \* process.env.ADMIN_TOKEN: "undefined" or "secret"
  redisClient,  \* module variable of utils/redisClient: undefined/ready/null
  mongo,        \* mongoose connection: connecting / connected / exited
  limiter,      \* [mode, cmd]: counter store chosen by the setup IIFE
  hits,         \* counter store: client -> [n, age of the window]
  store,        \* Chapter collection: sequence of subjects, _id = index
  cache,        \* value of key "chapters" in the key-value store
  cacheUp,      \* the key-value store answers calls
  stale,        \* uploads whose delete the present cache entry outlived
  reqs,         \* slot -> request in flight
  sent          \* the { total, chapters } bodies sent to callers so far

vars == <<variant, adminToken, redisClient, mongo, limiter, hits, store, cache, cacheUp, stale, reqs, sent>>

\* --------------------------------------------------------------- values
NoBody == [empty |-> TRUE]
DefaultQuery == [subject |-> "", page |-> 1, limit |-> 10]
Queries == {DefaultQuery, [subject |-> "Math", page |-> 1, limit |-> 10],
            [subject |-> "", page |-> 2, limit |-> 1]}
NoFile == [kind |-> "none", data |-> <<>>]
InvalidFile == [kind |-> "invalid", data |-> <<>>]
JsonFile(d) == [kind |-> "json", data |-> d]
Arrays == UNION {[1..n -> Subjects] : n \in 0..MaxItems}
Files == {NoFile, InvalidFile} \cup {JsonFile(d) : d \in Arrays}

\* A request: route, position, inputs (q, auth, file, i), handler locals (failed,
\* total, chapters), response (status, body) and history (out: store id or 0 per
\* uploaded record; seen: cached text served, or found by the upload's delete;
\* queried: the store was asked; err: what rejected).
Idle == [kind |-> "none", pc |-> "idle", q |-> DefaultQuery, auth |-> "undefined",
         file |-> NoFile, i |-> 0, failed |-> <<>>, out |-> <<>>,
         total |-> 0, chapters |-> <<>>, seen |-> <<>>,
         queried |-> FALSE, status |-> 0, body |-> NoBody, err |-> ""]

\* JSON text is a sequence of tokens; a document { total, chapters } is five.
StringifyPartial(p) == <<"{", p.total, ",">>
Stringify(p) == <<"{", p.total, ",", p.chapters, "}">>
Corrupt == <<"{">>
IsJson(s) == Len(s) = 5 /\ s[1] = "{" /\ s[5] = "}"
Parse(s) == [total |-> s[2], chapters |-> s[4]]

\* ---------------------------------------------------------------- store
Doc(i) == [id |-> i, subject |-> store[i]]
RECURSIVE Matching(_, _)
Matching(subject, i) ==
  IF i > Len(store) THEN <<>>
  ELSE (IF subject = "" \/ store[i] = subject THEN <<Doc(i)>> ELSE <<>>)
       \o Matching(subject, i + 1)
countDocuments(q) == Len(Matching(q.subject, 1))
Min(a, b) == IF a < b THEN a ELSE b
find(q) ==
  LET all == Matching(q.subject, 1)
      skip == (q.page - 1) * q.limit
  IN SubSeq(all, skip + 1, Min(Len(all), skip + q.limit))

\* ---------------------------------------------------------------- cache
\* v1 and v2 call get/setEx/del on the module itself; v3's module has `client` only.
ExportsClientApi == variant \in {"v1", "v2"}
Absent == [has |-> FALSE, val |-> <<>>, age |-> 0, ttl |-> 0]
\* age: seconds since the key was set; the key is gone once age reaches ttl.
CacheGet == IF cache.has /\ cache.age < cache.ttl THEN cache.val ELSE <<>>
CacheSetExMillis(ttl, v) == [has |-> TRUE, val |-> v, age |-> 0, ttl |-> ttl * 1000]
CacheSetEx(ttl, v) == [has |-> TRUE, val |-> v, age |-> 0, ttl |-> ttl]
CacheDelOtherKey(s) == cache
CacheDel(s) == Absent
Aged(c, d) == IF c.has /\ c.age + d < c.ttl THEN [c EXCEPT !.age = @ + d] ELSE Absent

Boot(tokens, stores) ==
  /\ variant \in Variants
  /\ adminToken \in tokens
  /\ redisClient = IF variant = "v3" THEN "undefined" ELSE "ready"
  /\ mongo = "connecting"
  /\ limiter = [mode |-> "unset", cmd |-> "incr"]
  /\ hits = [c \in Clients |-> [n |-> 0, age |-> 0]]
  /\ store \in stores
  /\ cache = Absent
  /\ cacheUp = TRUE
  /\ stale = {}
  /\ reqs = [s \in Reqs |-> Idle]
  /\ sent = {}

\* -------------------------------------------------------------- startup
\* utils/redisClient.js: the async initialiser resolves to a client or to null.
InitializeRedisClient ==
  /\ variant = "v3" /\ mongo # "exited" /\ redisClient = "undefined"
  /\ \E ok \in BOOLEAN : redisClient' = IF ok THEN "ready" ELSE "null"
  /\ UNCHANGED <<variant, adminToken, mongo, limiter, hits, store, cache, cacheUp, stale, reqs, sent>>

MongoConnected ==
  /\ mongo = "connecting"
  /\ mongo' = "connected"
  /\ UNCHANGED <<variant, adminToken, redisClient, limiter, hits, store, cache, cacheUp, stale, reqs, sent>>

\* .catch(err => process.exit(1)): the process ends, every connection is dropped.
MongoConnectFailed ==
  /\ mongo = "connecting"
  /\ mongo' = "exited"
  /\ reqs' = [s \in Reqs |-> Idle]
  /\ stale' = {}
  /\ UNCHANGED <<variant, adminToken, redisClient, limiter, hits, store, cache, cacheUp, sent>>

\* What the sendCommand adapter of each server.js iteration does with a command.
SendCommandOk(cmd) ==
  CASE variant = "v1" -> TRUE
    [] variant = "v2" -> cmd \in {"incr", "expire"}
    [] variant = "v3" -> cmd \in {"incr", "expire", "get", "set"}

\* The store the setup IIFE ends with; throws: constructing the adapter throws.
ChooseStoreIgnoresClient(throws) == IF throws THEN "local" ELSE "shared"
ChooseStore(throws) ==
  CASE variant = "v1" -> IF throws THEN "failed" ELSE "shared"
    [] variant = "v2" -> IF throws THEN "local" ELSE "shared"
    [] variant = "v3" -> IF redisClient = "ready" /\ ~throws THEN "shared" ELSE "local"

\* The setup IIFE: picks the counter store once, then registers limiter and routes.
\* cmd is the command the shared-store adapter will issue on each request.
LimiterSetup ==
  /\ mongo # "exited" /\ limiter.mode = "unset"
  /\ \E throws \in BOOLEAN, cmd \in {"incr", "evalsha"} :
       LET m == ChooseStore(throws)
       IN limiter' = [mode |-> m, cmd |-> IF m = "shared" THEN cmd ELSE "incr"]
  /\ UNCHANGED <<variant, adminToken, redisClient, mongo, hits, store, cache, cacheUp, stale, reqs, sent>>

Routed == limiter.mode \in {"shared", "local"}
Listening == mongo # "exited" /\ (variant = "v1" => Routed)

\* ---------------------------------------------------------- rate limiter
\* The first hit of a client opens its window; the window ends windowSec later.
Increment(c) ==
  IF hits[c].n = 0 \/ hits[c].age >= windowSec
  THEN [n |-> 1, age |-> 0]
  ELSE [n |-> hits[c].n + 1, age |-> hits[c].age]

Verdict(c) ==
  IF limiter.mode = "shared" /\ ~SendCommandOk(limiter.cmd) THEN "sendCommand"
  ELSE IF limiter.mode = "shared" /\ ~cacheUp THEN "down"
  ELSE IF Increment(c).n > max THEN "limited" ELSE "pass"

Counted(c) ==
  IF Verdict(c) \in {"pass", "limited"} THEN [hits EXCEPT ![c] = Increment(c)] ELSE hits

Respond(r, status, body) == [r EXCEPT !.pc = "done", !.status = status, !.body = body]
Unhandled(r, cause) == [r EXCEPT !.pc = "unhandled", !.err = cause]

\* A request that did not get past the framework or the limiter.
Refused(r, verdict) ==
  CASE ~Routed -> Respond(r, 404, [error |-> "Cannot route"])
    [] Routed /\ verdict = "limited" -> Respond(r, 429, [error |-> "Too many requests"])
    [] OTHER -> Respond([r EXCEPT !.err = verdict], 500, [error |-> "Internal Server Error"])

\* An application whose routes were registered ahead of the limiter.
ArriveRoutesFirst(s, c, r, onward) ==
  /\ Listening /\ reqs[s].pc = "idle"
  /\ reqs' = [reqs EXCEPT ![s] = onward]
  /\ UNCHANGED <<variant, adminToken, redisClient, mongo, limiter, hits, store, cache, cacheUp, stale, sent>>

\* Arrival of one request: framework, then limiter, then `onward` (the route).
Arrive(s, c, r, onward) ==
  /\ Listening /\ reqs[s].pc = "idle"
  /\ hits' = IF Routed THEN Counted(c) ELSE hits
  /\ reqs' = [reqs EXCEPT ![s] =
                IF Routed /\ Verdict(c) = "pass" THEN onward ELSE Refused(r, Verdict(c))]
  /\ UNCHANGED <<variant, adminToken, redisClient, mongo, limiter, store, cache, cacheUp, stale, sent>>

\* GET / : health check, registered after the limiter.  i: the hit this request is.
\* cap: hits the client may have in its window before this request.
ArriveHealth(s, c, cap) ==
  LET r == [Idle EXCEPT !.kind = "health", !.i = Increment(c).n]
  IN /\ hits[c].n <= cap
     /\ Arrive(s, c, r, Respond(r, 200, [message |-> "Mathongo Backend API is running!"]))

\* ------------------------------------------------- list: cache-aside read
ArriveList(s, c, q) ==
  LET r == [Idle EXCEPT !.kind = "list", !.q = q]
  IN /\ hits[c].n < MaxArrivals
     /\ Arrive(s, c, r, [r EXCEPT !.pc = "mw"])

PassOn(r) == [r EXCEPT !.pc = "count"]
ServeCachedText(r, cached) == Respond([r EXCEPT !.seen = cached], 200, [text |-> cached])
ServeCached(r, cached) == Respond([r EXCEPT !.seen = cached], 200, Parse(cached))

\* await redis.get('chapters'), then the hit test and JSON.parse.
\* guarded: the body runs inside try/catch, whose handler calls next().
Lookup(r, guarded) ==
  LET cached == CacheGet
  IN IF ~cacheUp THEN (IF guarded THEN PassOn(r) ELSE Unhandled(r, "get"))
     ELSE IF cached = <<>> THEN PassOn(r)
     ELSE IF IsJson(cached) THEN ServeCached(r, cached)
     ELSE (IF guarded THEN PassOn(r) ELSE Unhandled(r, "parse"))

\* The middleware body with its try/catch taken away.
cacheMiddlewareUnguarded(r) == Lookup(r, FALSE)
cacheMiddleware(r) ==
  CASE variant = "v1" -> Lookup(r, FALSE)
    [] variant = "v2" -> Lookup(r, TRUE)
    [] variant = "v3" -> IF redisClient # "ready" THEN PassOn(r) ELSE Lookup(r, TRUE)

\* A middleware that would drop an undecodable entry on its way to next().
CacheMiddlewareEvicts(s) ==
  /\ reqs[s].pc = "mw"
  /\ reqs' = [reqs EXCEPT ![s] = cacheMiddleware(reqs[s])]
  /\ sent' = IF cacheMiddleware(reqs[s]).pc = "done"
             THEN sent \cup {cacheMiddleware(reqs[s]).body} ELSE sent
  /\ cache' = IF cacheUp /\ CacheGet # <<>> /\ ~IsJson(CacheGet) THEN Absent ELSE cache
  /\ UNCHANGED <<variant, adminToken, redisClient, mongo, limiter, hits, store, cacheUp, stale>>

CacheMiddleware(s) ==
  /\ reqs[s].pc = "mw"
  /\ reqs' = [reqs EXCEPT ![s] = cacheMiddleware(reqs[s])]
  /\ sent' = IF cacheMiddleware(reqs[s]).pc = "done"
             THEN sent \cup {cacheMiddleware(reqs[s]).body} ELSE sent
  /\ UNCHANGED <<variant, adminToken, redisClient, mongo, limiter, hits, store, cache, cacheUp, stale>>

\* getAllChapters, one action per await.  ok: the store answered the query.
ListCount(s) ==
  /\ reqs[s].pc = "count" /\ mongo = "connected"
  /\ \E ok \in BOOLEAN :
       LET r == [reqs[s] EXCEPT !.queried = TRUE]
       IN reqs' = [reqs EXCEPT ![s] =
                     IF ok THEN [r EXCEPT !.pc = "find", !.total = countDocuments(r.q)]
                     ELSE Unhandled(r, "store")]
  /\ UNCHANGED <<variant, adminToken, redisClient, mongo, limiter, hits, store, cache, cacheUp, stale, sent>>

ListFind(s) ==
  /\ reqs[s].pc = "find" /\ mongo = "connected"
  /\ \E ok \in BOOLEAN :
       LET r == reqs[s]
       IN reqs' = [reqs EXCEPT ![s] =
                     IF ok THEN [r EXCEPT !.pc = "setEx", !.chapters = find(r.q)]
                     ELSE Unhandled(r, "store")]
  /\ UNCHANGED <<variant, adminToken, redisClient, mongo, limiter, hits, store, cache, cacheUp, stale, sent>>

Payload(r) == [total |-> r.total, chapters |-> r.chapters]

\* The entry the handler writes: one key and one expiry, whatever the query was.
PopulateUnfiltered(r) ==
  IF r.q = DefaultQuery THEN CacheSetEx(CacheTtl, Stringify(Payload(r))) ELSE cache
Populate(r) == CacheSetEx(CacheTtl, Stringify(Payload(r)))

\* await redis.setEx('chapters', 3600, JSON.stringify({ total, chapters }))
\* The module of variant v3 has no setEx: the call is a TypeError.
ListSetEx(s) ==
  /\ reqs[s].pc = "setEx"
  /\ IF ExportsClientApi /\ cacheUp
     THEN /\ cache' = Populate(reqs[s])
          /\ stale' = {}
          /\ reqs' = [reqs EXCEPT ![s].pc = "respond"]
     ELSE /\ UNCHANGED <<cache, stale>>
          /\ reqs' = [reqs EXCEPT ![s] = Unhandled(@, "setEx")]
  /\ UNCHANGED <<variant, adminToken, redisClient, mongo, limiter, hits, store, cacheUp, sent>>

ListRespond(s) ==
  /\ reqs[s].kind = "list" /\ reqs[s].pc = "respond"
  /\ reqs' = [reqs EXCEPT ![s] = Respond(@, 200, Payload(@))]
  /\ sent' = sent \cup {Payload(reqs[s])}
  /\ UNCHANGED <<variant, adminToken, redisClient, mongo, limiter, hits, store, cache, cacheUp, stale>>

\* ------------------------------------------------------------ fetch by id
\* id 0 stands for a malformed identifier.
ArriveGet(s, c, id) ==
  LET r == [Idle EXCEPT !.kind = "get", !.i = id]
  IN /\ hits[c].n < MaxArrivals
     /\ Arrive(s, c, r, [r EXCEPT !.pc = "findById"])

\* ok: the store answered; a cast error and a store error land in the same catch.
getChapterById(r, ok) ==
  IF r.i = 0 \/ ~ok THEN Respond(r, 400, [error |-> "Invalid chapter ID"])
  ELSE IF r.i > Len(store) THEN Respond(r, 404, [error |-> "Chapter not found"])
  ELSE Respond(r, 200, Doc(r.i))

GetChapterById(s) ==
  /\ reqs[s].pc = "findById" /\ mongo = "connected"
  /\ \E ok \in BOOLEAN :
       reqs' = [reqs EXCEPT ![s] = getChapterById([@ EXCEPT !.queried = TRUE], ok)]
  /\ UNCHANGED <<variant, adminToken, redisClient, mongo, limiter, hits, store, cache, cacheUp, stale, sent>>

\* ----------------------------------------------------------------- upload
\* req.headers.authorization === process.env.ADMIN_TOKEN
adminAuth(authorization) == authorization = adminToken

\* A handler that would take an undecodable file for an empty array.
uploadChaptersLenient(r) ==
  CASE r.file.kind = "none" -> Unhandled(r, "file")
    [] OTHER -> [r EXCEPT !.pc = IF Len(r.file.data) = 0 THEN "del" ELSE "create"]

\* Entry of uploadChapters up to its first await.
uploadChapters(r) ==
  CASE r.file.kind = "none" -> Unhandled(r, "file")
    [] r.file.kind = "invalid" -> Respond(r, 400, [error |-> "Invalid JSON format"])
    [] r.file.kind = "json" -> [r EXCEPT !.pc = IF Len(r.file.data) = 0 THEN "del" ELSE "create"]

ArriveUpload(s, c, authorization, file) ==
  LET r == [Idle EXCEPT !.kind = "upload", !.auth = authorization, !.file = file]
  IN /\ hits[c].n < MaxArrivals
     /\ Len(store) + Len(file.data) <= MaxStore
     /\ Arrive(s, c, r,
               IF adminAuth(authorization) THEN uploadChapters(r)
               ELSE Respond(r, 403, [error |-> "Unauthorized"]))

\* One turn of the insert loop: await Chapter.create(item).  ok: the store took
\* the record (no schema violation, no store error).
UploadCreate(s) ==
  /\ reqs[s].pc = "create" /\ mongo = "connected"
  /\ \E ok \in BOOLEAN :
       LET r == reqs[s]
           item == r.file.data[r.i + 1]
           after == [r EXCEPT !.i = @ + 1,
                              !.pc = IF r.i + 1 = Len(r.file.data) THEN "del" ELSE "create"]
       IN IF ok
          THEN /\ store' = Append(store, item)
               /\ reqs' = [reqs EXCEPT ![s] = [after EXCEPT !.out = Append(@, Len(store) + 1)]]
          ELSE /\ store' = store
               /\ reqs' = [reqs EXCEPT ![s] =
                             [after EXCEPT !.out = Append(@, 0), !.failed = Append(@, item)]]
  /\ UNCHANGED <<variant, adminToken, redisClient, mongo, limiter, hits, cache, cacheUp, stale, sent>>

\* await redis.del('chapters'); the module of variant v3 has no del (TypeError).
\* An entry that is still there after the delete has outlived it.
UploadDel(s) ==
  /\ reqs[s].pc = "del"
  /\ IF ExportsClientApi /\ cacheUp
     THEN /\ cache' = CacheDel(s)
          /\ stale' = IF CacheDel(s).has THEN stale \cup {s} ELSE {}
          /\ reqs' = [reqs EXCEPT ![s].pc = "respond", ![s].seen = CacheGet]
     ELSE /\ UNCHANGED <<cache, stale>>
          /\ reqs' = [reqs EXCEPT ![s] = Unhandled(@, "del")]
  /\ UNCHANGED <<variant, adminToken, redisClient, mongo, limiter, hits, store, cacheUp, sent>>

UploadBodyCountsAll(r) ==
  [message |-> "Upload complete", inserted |-> Len(r.file.data),
   failedCount |-> Len(r.failed), failed |-> r.failed]
UploadBody(r) ==
  [message |-> "Upload complete", inserted |-> Len(r.file.data) - Len(r.failed),
   failedCount |-> Len(r.failed), failed |-> r.failed]

UploadRespond(s) ==
  /\ reqs[s].kind = "upload" /\ reqs[s].pc = "respond"
  /\ reqs' = [reqs EXCEPT ![s] = Respond(@, 200, UploadBody(@))]
  /\ UNCHANGED <<variant, adminToken, redisClient, mongo, limiter, hits, store, cache, cacheUp, stale, sent>>

\* ------------------------------------------------------------ environment
\* The connection of an answered or abandoned request goes away.
Retire(s) ==
  /\ reqs[s].pc \in {"done", "unhandled"}
  /\ reqs' = [reqs EXCEPT ![s] = Idle]
  /\ stale' = stale \ {s}
  /\ UNCHANGED <<variant, adminToken, redisClient, mongo, limiter, hits, store, cache, cacheUp, sent>>

\* The key-value store becomes unreachable, or reachable again.
CacheOutage ==
  /\ mongo # "exited"
  /\ cacheUp' = ~cacheUp
  /\ UNCHANGED <<variant, adminToken, redisClient, mongo, limiter, hits, store, cache, stale, reqs, sent>>

\* Another writer of the shared key-value store leaves a value that is not JSON.
CorruptCache ==
  /\ mongo # "exited" /\ cache.val # Corrupt
  /\ cache' = CacheSetEx(CacheTtl, Corrupt)
  /\ stale' = {}
  /\ UNCHANGED <<variant, adminToken, redisClient, mongo, limiter, hits, store, cacheUp, reqs, sent>>

\* The clock advances by d seconds; expired keys and windows go away.
Tick(d) ==
  /\ mongo # "exited"
  /\ cache' = Aged(cache, d)
  /\ stale' = IF Aged(cache, d).has THEN stale ELSE {}
  /\ hits' = [c \in Clients |->
                IF hits[c].n = 0 \/ hits[c].age + d >= windowSec THEN [n |-> 0, age |-> 0]
                ELSE [hits[c] EXCEPT !.age = @ + d]]
  /\ UNCHANGED <<variant, adminToken, redisClient, mongo, limiter, store, cacheUp, reqs, sent>>

\* ---------------------------------------------------------- specifications
\* Read path: list requests in both slots (any query in the first), fetches by id.
Init == Boot({"secret"}, {<<>>, Seeded})
Next ==
  \/ InitializeRedisClient
  \/ MongoConnected
  \/ MongoConnectFailed
  \/ LimiterSetup
  \/ \E q \in Queries : ArriveList(1, "ip1", q)
  \/ ArriveList(2, "ip1", DefaultQuery)
  \/ \E id \in 0..Len(Seeded) : ArriveGet(1, "ip1", id)
  \/ GetChapterById(1)
  \/ \E s \in Reqs : CacheMiddleware(s)
  \/ \E s \in Reqs : ListCount(s)
  \/ \E s \in Reqs : ListFind(s)
  \/ \E s \in Reqs : ListSetEx(s)
  \/ \E s \in Reqs : ListRespond(s)
  \/ \E s \in Reqs : Retire(s)
  \/ CacheOutage
  \/ CorruptCache
  \/ Tick(CacheTtl \div 2)
Spec == Init /\ [][Next]_vars

\* Write path: uploads in the first slot, default list requests in the second.
InitUpload == Boot({"secret"}, {<<>>})
NextUpload ==
  \/ InitializeRedisClient
  \/ MongoConnected
  \/ MongoConnectFailed
  \/ LimiterSetup
  \/ \E a \in {"undefined", "secret", "guess"}, f \in Files : ArriveUpload(1, "ip1", a, f)
  \/ UploadCreate(1)
  \/ UploadDel(1)
  \/ UploadRespond(1)
  \/ ArriveList(2, "ip1", DefaultQuery)
  \/ CacheMiddleware(2)
  \/ ListCount(2)
  \/ ListFind(2)
  \/ ListSetEx(2)
  \/ ListRespond(2)
  \/ \E s \in Reqs : Retire(s)
  \/ CacheOutage
SpecUpload == InitUpload /\ [][NextUpload]_vars

\* Authorisation: uploads alone, with and without a configured secret.
InitAuth == Boot({"undefined", "secret"}, {<<>>})
NextAuth ==
  \/ InitializeRedisClient
  \/ MongoConnected
  \/ MongoConnectFailed
  \/ LimiterSetup
  \/ \E a \in {"undefined", "secret", "guess"}, f \in Files : ArriveUpload(1, "ip1", a, f)
  \/ UploadCreate(1)
  \/ UploadDel(1)
  \/ UploadRespond(1)
  \/ Retire(1)
  \/ CacheOutage
SpecAuth == InitAuth /\ [][NextAuth]_vars

\* Rate limiter: health checks, one client up to one request past the limit and
\* a second one with a few, the clock in half windows.
InitLimiter == Boot({"secret"}, {<<>>})
NextLimiter ==
  \/ InitializeRedisClient
  \/ MongoConnected
  \/ MongoConnectFailed
  \/ LimiterSetup
  \/ ArriveHealth(1, "ip1", max)
  \/ ArriveHealth(1, "ip2", MaxArrivals)
  \/ Retire(1)
  \/ CacheOutage
  \/ Tick(windowSec \div 2)
SpecLimiter == InitLimiter /\ [][NextLimiter]_vars

\* All three chapter routes, one request at a time.
InitRoutes == Boot({"secret"}, {<<>>})
NextRoutes ==
  \/ InitializeRedisClient
  \/ MongoConnected
  \/ MongoConnectFailed
  \/ LimiterSetup
  \/ \E q \in Queries : ArriveList(1, "ip1", q)
  \/ \E id \in 0..MaxStore : ArriveGet(1, "ip1", id)
  \/ \E a \in {"secret", "guess"}, f \in Files : ArriveUpload(1, "ip1", a, f)
  \/ CacheMiddleware(1)
  \/ ListCount(1)
  \/ ListFind(1)
  \/ ListSetEx(1)
  \/ ListRespond(1)
  \/ GetChapterById(1)
  \/ UploadCreate(1)
  \/ UploadDel(1)
  \/ UploadRespond(1)
  \/ Retire(1)
  \/ CacheOutage
SpecRoutes == InitRoutes /\ [][NextRoutes]_vars

\* ------------------------------------------------------------------ claims
CacheUsable == cacheUp /\ (variant = "v3" => redisClient = "ready")

\* C1: a default list request whose lookup finds a value V under "chapters" (the
\* cache being reachable, V being JSON) is answered 200 with JSON.parse(V), by
\* the middleware itself, and the store is not queried for it.
C1_HitServesCachedValue ==
  [][\A s \in Reqs :
       (/\ reqs[s].pc = "mw" /\ reqs[s].q = DefaultQuery
        /\ reqs'[s].pc \notin {"mw", "idle"}
        /\ CacheUsable /\ CacheGet # <<>> /\ IsJson(CacheGet))
       => /\ reqs'[s].pc = "done" /\ reqs'[s].status = 200
          /\ reqs'[s].body = Parse(CacheGet)
          /\ ~reqs'[s].queried]_vars

C1_Witness ==
  \E s \in Reqs :
    /\ reqs[s].kind = "list" /\ reqs[s].q = DefaultQuery /\ reqs[s].pc = "done"
    /\ reqs[s].seen # <<>> /\ reqs[s].body = Parse(reqs[s].seen) /\ reqs[s].body.total > 0
    /\ ~reqs[s].queried

\* C2: once an upload has responded 200, the key "chapters" is absent or holds a
\* value written after that upload's delete.
UploadAnswered(s) == reqs[s].kind = "upload" /\ reqs[s].pc = "done" /\ reqs[s].status = 200
C2_NoEntryOutlivesUpload ==
  \A s \in Reqs : UploadAnswered(s) => ~(cache.has /\ s \in stale)

\* The delete found an entry that a list request had written, and removed it.
C2_Witness ==
  \E s \in Reqs : UploadAnswered(s) /\ IsJson(reqs[s].seen) /\ ~cache.has

\* C3: with the cache unavailable (client null or not yet initialised, or cache
\* calls failing) the list and upload endpoints answer as they do with a present,
\* empty cache: no request is left without its answer because of a cache call.
C3_CacheUnavailableIsInvisible ==
  \A s \in Reqs :
    reqs[s].kind \in {"list", "upload"} /\ reqs[s].pc = "unhandled"
      => reqs[s].err \notin {"get", "setEx", "del"}

\* C4: under the setup of server.js:61-151, a request that reaches the limiter is
\* answered by the route when it is one of the first 30 of its client's window and
\* with 429 when it is the 31st, in shared-store and in local-store mode (outages
\* of the shared store set aside).
C4_ThirtyPerWindow ==
  \A s \in Reqs :
    (variant = "v3" /\ reqs[s].kind = "health" /\ reqs[s].pc = "done"
     /\ reqs[s].status # 404 /\ reqs[s].err # "down")
      => reqs[s].status = IF reqs[s].i <= max THEN 200 ELSE 429

\* C5: an answered upload of N records of which M failed insertion tried every
\* record in input order, reports inserted = N-M, failedCount = M and failed = the
\* M records that failed, and the other N-M are in the store.
RECURSIVE FailedOf(_, _, _)
FailedOf(data, out, i) ==
  IF i > Len(out) THEN <<>>
  ELSE (IF out[i] = 0 THEN <<data[i]>> ELSE <<>>) \o FailedOf(data, out, i + 1)

C5_PartialUploadReport ==
  \A s \in Reqs :
    UploadAnswered(s) =>
      LET r == reqs[s]
          data == r.file.data
          N == Len(data)
          bad == FailedOf(data, r.out, 1)
          M == Len(bad)
      IN /\ Len(r.out) = N
         /\ r.body.inserted = N - M /\ r.body.failedCount = M /\ r.body.failed = bad
         /\ \A i \in 1..N : r.out[i] # 0 =>
              r.out[i] \in 1..Len(store) /\ store[r.out[i]] = data[i]
         /\ \A i, j \in 1..N : i < j /\ r.out[i] # 0 /\ r.out[j] # 0 => r.out[i] < r.out[j]

\* Two records, the first one refused, the second one stored.
C5_Witness ==
  \E s \in Reqs :
    /\ UploadAnswered(s) /\ Len(reqs[s].file.data) = 2
    /\ reqs[s].out[1] = 0 /\ reqs[s].out[2] # 0 /\ reqs[s].body.inserted = 1

\* C6: the value the list handler stores is what a lookup right after the write
\* returns, and no lookup returns it once 3600 seconds have passed since the write.
C6_PopulatedValueLivesOneTtl ==
  [][/\ \A s \in Reqs :
          reqs[s].pc = "setEx" /\ reqs'[s].pc = "respond"
            => cache'.has /\ cache'.age = 0 /\ cache'.ttl > 0
               /\ cache'.val = Stringify(Payload(reqs[s]))
     /\ cache'.has /\ cache'.age < cache'.ttl => cache'.age < CacheTtl]_vars

\* A populated entry half its lifetime old, still served to a lookup.
C6_Witness ==
  /\ cache.has /\ IsJson(cache.val) /\ cache.age = CacheTtl \div 2
  /\ \E s \in Reqs : reqs[s].pc = "done" /\ reqs[s].seen = cache.val

\* C7: a failing cache write never fails the list request: once total and
\* chapters are computed the caller gets them with status 200.
C7_SetExFailureKeepsResponse ==
  \A s \in Reqs :
    reqs[s].kind = "list" /\ reqs[s].queried /\ reqs[s].err = "setEx"
      => reqs[s].pc = "done" /\ reqs[s].status = 200 /\ reqs[s].body = Payload(reqs[s])

\* C8: once the insert loop is over the upload deletes "chapters" and answers
\* { message, inserted, failedCount, failed }, whether or not the delete failed.
C8_DelFailureKeepsResponse ==
  \A s \in Reqs :
    (reqs[s].kind = "upload" /\ reqs[s].file.kind = "json"
     /\ reqs[s].pc \notin {"create", "del", "respond"}
     /\ Len(reqs[s].out) = Len(reqs[s].file.data) /\ reqs[s].status \notin {403, 404, 429, 500})
      => reqs[s].pc = "done" /\ reqs[s].status = 200 /\ reqs[s].body = UploadBody(reqs[s])

\* C9: the cache-aside middleware hands every request it does not answer to the
\* list handler: a failed lookup or a stored value that is not JSON never ends a
\* request in the middleware.
C9_MiddlewarePassesOn ==
  \A s \in Reqs : reqs[s].kind = "list" => ~(reqs[s].pc = "unhandled" /\ reqs[s].err \in {"get", "parse"})

\* C10: an upload whose authorization is not the configured admin secret, none
\* supplied and none configured included, is answered 403 and inserts nothing.
PastLimiter(s) == reqs[s].pc # "idle" /\ reqs[s].status \notin {404, 429, 500}
C10_UploadNeedsAdminSecret ==
  \A s \in Reqs :
    (reqs[s].kind = "upload" /\ PastLimiter(s)
     /\ (reqs[s].auth # adminToken \/ reqs[s].auth = "undefined" \/ adminToken = "undefined"))
      => reqs[s].pc = "done" /\ reqs[s].status = 403 /\ reqs[s].out = <<>>

\* C11: under the startup of server.js:30-46 the listener takes no request while
\* the connection to the document store has not succeeded: every request that
\* was accepted arrived with the store connected.
C11_NoTrafficBeforeStore ==
  variant = "v3" => \A s \in Reqs : reqs[s].pc # "idle" => mongo = "connected"

\* C12: under the setup of server.js:61-151 a command the sendCommand adapter does
\* not support leaves the limiter in local-store mode after startup, and no
\* request is failed by the adapter.
C12_IncompatibilityFallsBack ==
  variant = "v3" =>
    /\ limiter.mode = "shared" => SendCommandOk(limiter.cmd)
    /\ \A s \in Reqs : reqs[s].err # "sendCommand"

\* C13: a fetch by id is answered 400 exactly when the id is malformed, 404 when
\* the id is well formed and no record has it, and 200 with the record otherwise;
\* the step neither reads nor changes the key "chapters".
C13_FetchByIdAnswers ==
  [][\A s \in Reqs :
       (reqs[s].kind = "get" /\ reqs[s].pc = "findById" /\ reqs'[s].pc = "done")
       => LET id == reqs[s].i
          IN /\ reqs'[s].status = (IF id = 0 THEN 400 ELSE IF id > Len(store) THEN 404 ELSE 200)
             /\ reqs'[s].status = 200 => reqs'[s].body = Doc(id)
             /\ reqs'[s].seen = <<>> /\ cache' = cache]_vars

\* C14: every run of the list handler that has its result goes on to the cache
\* write, and a write the cache takes stores that result under "chapters" with
\* expiry 3600, whatever filters or pagination the request carried.
C14_PopulatesWhateverTheQuery ==
  [][\A s \in Reqs :
       reqs[s].kind = "list" =>
         /\ (reqs[s].pc = "find" /\ reqs'[s].pc \notin {"find", "unhandled"})
              => reqs'[s].pc = "setEx" /\ reqs'[s].q = reqs[s].q
         /\ (reqs[s].pc = "setEx" /\ reqs'[s].pc # "setEx" /\ ExportsClientApi /\ cacheUp)
              => reqs'[s].pc = "respond"
         /\ (reqs[s].pc = "setEx" /\ reqs'[s].pc = "respond")
              => cache' = [has |-> TRUE, age |-> 0, ttl |-> CacheTtl,
                           val |-> Stringify([total |-> reqs[s].total,
                                              chapters |-> reqs[s].chapters])]]_vars

\* A default, unfiltered list request answered from the cache with what an
\* earlier filtered or paginated request had stored.
C14_Witness ==
  \E s \in Reqs :
    /\ reqs[s].kind = "list" /\ reqs[s].q = DefaultQuery
    /\ reqs[s].pc = "done" /\ reqs[s].status = 200 /\ ~reqs[s].queried
    /\ IsJson(reqs[s].seen) /\ reqs[s].body = Parse(reqs[s].seen)
    /\ reqs[s].body # [total |-> countDocuments(DefaultQuery), chapters |-> find(DefaultQuery)]

C16_MiddlewareLeavesCacheAlone ==
  [][\A s \in Reqs :
       (reqs[s].kind = "list" /\ reqs[s].pc = "mw" /\ reqs'[s].pc # "mw")
       => /\ cache' = cache
          /\ (CacheUsable /\ IsJson(CacheGet) /\ reqs'[s].pc # "idle")
               => /\ reqs'[s].pc = "done" /\ reqs'[s].status = 200
                  /\ reqs'[s].q = reqs[s].q /\ ~reqs'[s].queried]_vars

\* A filtered or paginated request answered by the middleware from an entry
\* that is still in the cache afterwards.
C16_Witness ==
  \E s \in Reqs :
    /\ reqs[s].kind = "list" /\ reqs[s].q # DefaultQuery
    /\ reqs[s].pc = "done" /\ reqs[s].status = 200 /\ ~reqs[s].queried
    /\ IsJson(reqs[s].seen) /\ cache.has /\ cache.val = reqs[s].seen

\* C17: under the setup of server.js:61-138 the counter store is chosen in one
\* step and stays as chosen; the choice is local-store mode when the cache client
\* is not ready at that moment or constructing the adapter throws, and a client
\* that becomes ready later changes nothing.
C17_StoreChosenOnce ==
  [][variant = "v3" =>
       /\ limiter.mode # "unset" => limiter' = limiter
       /\ \A throws \in BOOLEAN :
            (redisClient # "ready" \/ throws) => ChooseStore(throws) = "local"
       /\ (limiter.mode = "unset" /\ limiter'.mode # "unset")
            => /\ limiter'.mode \in {ChooseStore(TRUE), ChooseStore(FALSE)}
               /\ limiter'.mode \in {"shared", "local"}
               /\ redisClient # "ready" => limiter'.mode = "local"]_vars

\* Local-store mode was chosen and is counting requests while the cache client is
\* ready.
C17_Witness ==
  /\ variant = "v3" /\ limiter.mode = "local" /\ redisClient = "ready"
  /\ \E c \in Clients : hits[c].n > 0

\* C18: a request to the list, fetch-by-id or upload route goes on to the
\* cache-aside middleware or a handler only when the limiter is registered and
\* has counted it within the limit; one that arrives before the limiter setup has
\* finished finds no route and is answered 404.
C18_RoutesBehindLimiter ==
  [][\A s \in Reqs :
       (/\ reqs[s].pc = "idle" /\ reqs'[s].pc # "idle"
        /\ reqs'[s].kind \in {"list", "get", "upload"})
       => IF Routed
          THEN reqs'[s].status \notin {429, 500}
                 => \E c \in Clients : /\ hits' = [hits EXCEPT ![c] = Increment(c)]
                                       /\ hits' # hits /\ Increment(c).n <= max
          ELSE reqs'[s].pc = "done" /\ reqs'[s].status = 404 /\ hits' = hits]_vars

\* An upload that the limiter counted as the first of its window is in its handler.
C18_Witness ==
  /\ hits["ip1"].n = 1
  /\ \E s \in Reqs : reqs[s].kind = "upload" /\ reqs[s].pc = "create"

\* C19: while two list requests that both missed the cache are in their handlers,
\* the populate write of either one completes, leaves that request's own value
\* under "chapters" (the later write over the earlier) and is followed by that
\* request's response.
C19_ConcurrentMissesBothAnswered ==
  [][\A s, t \in Reqs :
       (/\ s # t /\ reqs[s].kind = "list" /\ reqs[t].kind = "list"
        /\ reqs[s].pc = "setEx" /\ reqs[t].pc \in {"count", "find", "setEx", "respond"}
        /\ reqs'[s].pc # "setEx")
       => /\ reqs'[s].pc = "respond"
          /\ cache'.has /\ cache'.val = Stringify(Payload(reqs[s]))]_vars

\* C20: once an upload has responded and no list request is in flight any more,
\* the key "chapters" is absent or holds a snapshot that contains every record
\* that upload inserted.
C20_NoOlderSnapshotAfterUpload ==
  \A u \in Reqs :
    (/\ UploadAnswered(u) /\ cache.has
     /\ \A s \in Reqs : reqs[s].kind = "list" => reqs[s].pc \in {"done", "unhandled"})
    => /\ IsJson(cache.val)
       /\ \A i \in 1..Len(reqs[u].out) :
            reqs[u].out[i] # 0 =>
              \E j \in 1..Len(Parse(cache.val).chapters) :
                Parse(cache.val).chapters[j].id = reqs[u].out[i]

\* C21: the cache-aside middleware of middlewares/cache.js and of
\* utils/redisClient.js ends its one step for a request in exactly one of two
\* ways, a failed lookup or decoding included: a response is sent and the list
\* handler is not entered, or the list handler is entered and nothing was sent;
\* no request comes back to the middleware.
C21_MiddlewareRespondsXorPassesOn ==
  [][\A s \in Reqs :
       (variant \in {"v2", "v3"} /\ reqs[s].kind = "list") =>
         /\ (reqs[s].pc = "mw" /\ reqs'[s].pc \notin {"mw", "idle"})
              => \/ /\ reqs'[s].pc = "done" /\ reqs'[s].status # 0
                    /\ reqs'[s].body # NoBody /\ ~reqs'[s].queried
                 \/ /\ reqs'[s].pc = "count" /\ reqs'[s].status = 0
                    /\ reqs'[s].body = NoBody
         /\ reqs[s].pc \notin {"idle", "mw"} => reqs'[s].pc # "mw"]_vars

\* With the cache unreachable one request has been passed on to the list
\* handler, beside a request that the middleware answered from the cache.
C21_Witness ==
  /\ variant = "v2" /\ ~cacheUp
  /\ \E s, t \in Reqs :
       /\ reqs[s].kind = "list" /\ reqs[s].pc = "done" /\ reqs[s].status = 200
       /\ IsJson(reqs[s].seen) /\ ~reqs[s].queried
       /\ reqs[t].kind = "list" /\ reqs[t].pc = "count" /\ reqs[t].status = 0

\* C22: an upload that reaches its handler with a file that is not valid JSON is
\* answered 400 with an { error } body in that step, which leaves the collection
\* and the key "chapters" as they were; no insert and no delete follows.
C22_InvalidJsonUploadRejected ==
  [][\A s \in Reqs :
       (reqs'[s].kind = "upload" /\ reqs'[s].file.kind = "invalid")
       => /\ (/\ reqs[s].pc = "idle" /\ adminAuth(reqs'[s].auth)
              /\ reqs'[s].status \notin {404, 429, 500})
               => /\ reqs'[s].pc = "done" /\ reqs'[s].status = 400
                  /\ reqs'[s].body = [error |-> "Invalid JSON format"]
                  /\ store' = store /\ cache' = cache
          /\ reqs'[s].pc \notin {"create", "del", "respond"} /\ reqs'[s].out = <<>>]_vars

\* The rejected upload, with an entry that a list request stored still in place.
C22_Witness ==
  /\ cache.has /\ IsJson(cache.val)
  /\ \E s \in Reqs :
       /\ reqs[s].kind = "upload" /\ reqs[s].file.kind = "invalid"
       /\ reqs[s].auth = adminToken /\ reqs[s].pc = "done" /\ reqs[s].status = 400
====
